---------------------------- MODULE Spec2Model ----------------------------
(***************************************************************************)
(* perfhash: a static two-level (FKS) perfect hash map.                    *)
(*                                                                         *)
(* The model follows perfhash.hpp statement by statement: the randomized   *)
(* universal hash functor ru_hash_function<Integer>, the range constructor *)
(* of perfect_hash_map, populate, do_perfect, and the accessors at and     *)
(* operator[].  The repository holds two copies of the header (namespace   *)
(* perfhash, with asserts, and namespace hashing, the one main.cpp names); *)
(* the variable header says which copy a behaviour runs.                   *)
(*                                                                         *)
(* Vectors are sequences: the C++ element v[h] is v[h + 1] here.           *)
(* Keys are w-bit patterns 0 .. 2^w - 1; a * key + b wraps modulo 2^w.     *)
(***************************************************************************)
EXTENDS Integers, Sequences, FiniteSets, TLC

\* Width of the key type in bits (sizeof(Integer) * 8 in the source, scaled
\* down so that the hash family can be enumerated).
w == 5

\* Longest construction input.
MaxN == 2

\* Keys a construction input may hold; 0 is the default-constructed key.
Keys == {0, 1, 3}

\* Keys looked up after construction: 5 never occurs in an input.
QueryKeys == Keys \cup {5}

\* The value of the i-th input pair.
ValueAt == <<"a", "b", "c", "d">>

\* Values assigned through operator[] and the mutable at.
NewValues == {"teste"}

\* Default-constructed std::string.
DefaultValue == ""

Pow2(n) == 2 ^ n

\* The values rdist(rng) may return: a sample of [0, 2^(w-1) - 1], the range
\* of a default-constructed std::uniform_int_distribution<int>.
RDist == {0, 1, Pow2(w - 3), Pow2(w - 1) - 1}

\* What an uninitialized size_t M may hold when SubHash's constructor seeds
\* its hash (a sample: no shift, and a shift that clears every bit).
GarbageM == {0, w - 1}

Shr(x, s) == x \div Pow2(s)

---------------------------------------------------------------------------
\* log2 rounding down: floor(log2(value)), and 0 for value = 0.
RECURSIVE log2_floor(_)
log2_floor(value) == IF value <= 1 THEN 0 ELSE 1 + log2_floor(value \div 2)

\* unsigned int log2(size_t value): the number of significant bits.
RECURSIVE log2(_)
log2(value) == IF value = 0 THEN 0 ELSE 1 + log2(value \div 2)

\* A rehash that draws b and forgets a.
rehash_b_only(hf, d1, d2) == [hf EXCEPT !.b = Shr(d2, hf.M)]

\* ru_hash_function::rehash with the two draws d1, d2: a = d1, b = d2 >> M.
rehash(hf, d1, d2) == [hf EXCEPT !.a = d1, !.b = Shr(d2, hf.M)]

\* ru_hash_function::operator(): unsigned(a * key + b) >> (w - M).
\* The shift count w - M is a size_t.  For 1 <= M <= w it is in [0, w) and the
\* result is defined.  For M = 0 the count is the width itself, for M > w it
\* wraps to a huge value: both are undefined, and a build either yields 0
\* or shifts by the count's low bits.
hash_apply(hf, key) ==
  LET x == (hf.a * key + hf.b) % Pow2(w)
  IN  IF hf.M \in 1..w
        THEN {Shr(x, w - hf.M)}
        ELSE {0, Shr(x, (w - hf.M) % w)}

DefaultPair == [first |-> 0, second |-> DefaultValue]

\* SubHash::resize(size): hash.M = log2(size); buckets.resize(1 << M).
\* std::vector::resize keeps the elements it has and value-initializes the rest.
resize(bucket, size) ==
  LET M == log2(size)
  IN  [hash    |-> [bucket.hash EXCEPT !.M = M],
       buckets |-> [s \in 1..Pow2(M) |->
                      IF s <= Len(bucket.buckets) THEN bucket.buckets[s]
                                                  ELSE DefaultPair]]

\* SubHash::capacity.
capacity(bucket) == Len(bucket.buckets)

---------------------------------------------------------------------------
VARIABLES
  header,     \* "perfhash" or "hashing": the copy of the header in use
  input,      \* the range [first, last) given to the constructor
  pc,         \* where the program is
  m_hash,     \* top-level hash: [M, a, b]
  m_buckets,  \* vector<SubHash>: [hash |-> [M, a, b], buckets |-> pairs]
  m_keys,     \* list<key_type>
  hashed,     \* populate's vector<vector<value_type>>
  it,         \* populate's iterator: pairs of input already partitioned
  i,          \* populate's bucket index
  dummy,      \* do_perfect's vector<bool>
  collision,  \* do_perfect's bool collision
  j,          \* do_perfect's position in elements
  ret,        \* the last accessor call and its outcome
  other       \* what at gave, key by key, on a map built earlier from input

vars == <<header, input, pc, m_hash, m_buckets, m_keys, hashed, it, i,
          dummy, collision, j, ret, other>>

build_vars == <<m_hash, m_buckets, m_keys, hashed, it, i, dummy, collision, j>>

\* No earlier map.
NoMap == <<>>

NoCall == [op |-> "none", key |-> 0, out |-> DefaultValue]

\* Sequences of at most n pairs, the i-th with a key of Keys and value ValueAt[i].
RECURSIVE KeySeqs(_)
KeySeqs(n) ==
  IF n = 0 THEN {<<>>}
  ELSE LET shorter == KeySeqs(n - 1)
       IN  shorter \cup {Append(s, k) : s \in {t \in shorter : Len(t) = n - 1},
                                        k \in Keys}

Inputs == {[p \in 1..Len(ks) |-> [first |-> ks[p], second |-> ValueAt[p]]] :
             ks \in KeySeqs(MaxN)}

InitWith(h) ==
  /\ header = h
  /\ input \in Inputs
  /\ pc = "start"
  /\ m_hash = [M |-> 0, a |-> 0, b |-> 0]
  /\ m_buckets = <<>>
  /\ m_keys = <<>>
  /\ hashed = <<>>
  /\ it = 0
  /\ i = 0
  /\ dummy = <<>>
  /\ collision = FALSE
  /\ j = 0
  /\ ret = NoCall
  /\ other = NoMap

Init == InitWith("perfhash")

---------------------------------------------------------------------------
\* The range constructor up to the call of populate: m_hash.M = log2(n),
\* m_hash.seed, m_buckets.resize(1 << M, SubHash(m_random_device, allocator)).
\* d1, d2 are the top-level draws; g is the temporary SubHash's uninitialized
\* hash.M and e1, e2 the draws of its seed.  Every bucket is a copy of it.
\* populate then declares hashed(m_buckets.size()).
Construct ==
  /\ pc = "start"
  /\ \E d1 \in RDist, d2 \in RDist, g \in GarbageM, e1 \in RDist, e2 \in RDist :
       LET M    == log2(Len(input))
           top  == rehash([M |-> M, a |-> 0, b |-> 0], d1, d2)
           temp == [hash    |-> rehash([M |-> g, a |-> 0, b |-> 0], e1, e2),
                    buckets |-> <<>>]
       IN  /\ m_hash' = top
           /\ m_buckets' = [s \in 1..Pow2(M) |-> temp]
           /\ hashed' = [s \in 1..Pow2(M) |-> <<>>]
  /\ pc' = "partition"
  /\ UNCHANGED <<header, input, m_keys, it, i, dummy, collision, j, ret, other>>

\* One iteration of populate's first loop: m_keys.push_back(it->first);
\* h = m_hash(it->first); hashed[h].push_back(*it).  An index outside hashed
\* fails the assert (perfhash) or makes hashed.at throw (hashing).
Partition ==
  /\ pc = "partition"
  /\ it < Len(input)
  /\ LET e == input[it + 1]
     IN  /\ m_keys' = Append(m_keys, e.first)
         /\ \E h \in hash_apply(m_hash, e.first) :
              IF h < Len(hashed)
                THEN /\ hashed' = [hashed EXCEPT ![h + 1] = Append(@, e)]
                     /\ it' = it + 1
                     /\ pc' = pc
                ELSE /\ pc' = "fault"
                     /\ UNCHANGED <<hashed, it>>
  /\ UNCHANGED <<header, input, m_hash, m_buckets, i, dummy, collision, j, ret, other>>

\* The first loop is over: the second starts at bucket 0.
PartitionEnd ==
  /\ pc = "partition"
  /\ it = Len(input)
  /\ pc' = "bucket"
  /\ i' = 0
  /\ UNCHANGED <<header, input, m_hash, m_buckets, m_keys, hashed, it,
                 dummy, collision, j, ret, other>>

\* populate's second loop, a bucket with no element: continue.
SkipEmpty ==
  /\ pc = "bucket"
  /\ i < Len(m_buckets)
  /\ hashed[i + 1] = <<>>
  /\ i' = i + 1
  /\ UNCHANGED <<header, input, pc, m_hash, m_buckets, m_keys, hashed, it,
                 dummy, collision, j, ret, other>>

\* populate's second loop, a bucket with l elements: bucket.resize(l * l),
\* then do_perfect declares dummy(bucket.capacity()) and enters the do-while:
\* collision = false.
Resize ==
  /\ pc = "bucket"
  /\ i < Len(m_buckets)
  /\ hashed[i + 1] # <<>>
  /\ LET l      == Len(hashed[i + 1])
         bucket == resize(m_buckets[i + 1], l * l)
     IN  /\ m_buckets' = [m_buckets EXCEPT ![i + 1] = bucket]
         /\ dummy' = [s \in 1..capacity(bucket) |-> FALSE]
  /\ collision' = FALSE
  /\ j' = 0
  /\ pc' = "probe"
  /\ UNCHANGED <<header, input, m_hash, m_keys, hashed, it, i, ret, other>>

\* populate returns, and with it the constructor.
PopulateEnd ==
  /\ pc = "bucket"
  /\ i = Len(m_buckets)
  /\ pc' = "done"
  /\ UNCHANGED <<header, input, m_hash, m_buckets, m_keys, hashed, it, i,
                 dummy, collision, j, ret, other>>

\* What do_perfect does to dummy when it finds a collision:
\* std::fill(dummy.begin(), dummy.end(), false) in perfhash, dummy.clear() in
\* hashing.
reset_dummy(hdr, d) == IF hdr = "hashing" THEN <<>> ELSE [s \in 1..Len(d) |-> FALSE]

\* One iteration of do_perfect's for loop over elements, inside the do-while
\* (the first iteration of a pass follows the pass's collision = false).
\* h = bucket.hash(e.first).  An h outside dummy fails the assert (perfhash) or
\* makes dummy.at(h) throw std::out_of_range out of the constructor (hashing).
\* dummy[h] set: collision = true, dummy is reset, bucket.rehash(), break; the
\* while (collision) then starts the next pass at the first element.
\* dummy[h] clear: dummy[h] = true, next element.
\* d1, d2 are the draws of the rehash.
Probe ==
  /\ pc = "probe"
  /\ j < Len(hashed[i + 1])
  /\ LET bucket == m_buckets[i + 1]
         e      == hashed[i + 1][j + 1]
     IN  \E h \in hash_apply(bucket.hash, e.first) :
           IF h >= Len(dummy)
             THEN /\ pc' = IF header = "hashing" THEN "threw" ELSE "fault"
                  /\ collision' = FALSE
                  /\ UNCHANGED <<m_buckets, dummy, j>>
           ELSE IF dummy[h + 1]
             THEN /\ collision' = TRUE
                  /\ dummy' = reset_dummy(header, dummy)
                  /\ \E d1 \in RDist, d2 \in RDist :
                       m_buckets' = [m_buckets EXCEPT
                                       ![i + 1].hash = rehash(@, d1, d2)]
                  /\ j' = 0
                  /\ pc' = pc
             ELSE /\ collision' = FALSE
                  /\ dummy' = [dummy EXCEPT ![h + 1] = TRUE]
                  /\ j' = j + 1
                  /\ UNCHANGED <<m_buckets, pc>>
  /\ UNCHANGED <<header, input, m_hash, m_keys, hashed, it, i, ret, other>>

\* A pass ended with collision = false: the do-while is left.
ProbeEnd ==
  /\ pc = "probe"
  /\ j = Len(hashed[i + 1])
  /\ ~collision
  /\ pc' = "place"
  /\ j' = 0
  /\ UNCHANGED <<header, input, m_hash, m_buckets, m_keys, hashed, it, i,
                 dummy, collision, ret, other>>

\* An add that stores the value and leaves the slot's key as it is.
add_value_only(bucket, pair, h) ==
  [bucket EXCEPT !.buckets[h + 1].second = pair.second]

\* SubHash::add(pair): buckets[hash(pair.first)] = pair.
add(bucket, pair, h) == [bucket EXCEPT !.buckets[h + 1] = pair]

\* One iteration of do_perfect's last loop: bucket.add(e).
Place ==
  /\ pc = "place"
  /\ j < Len(hashed[i + 1])
  /\ LET bucket == m_buckets[i + 1]
         e      == hashed[i + 1][j + 1]
     IN  \E h \in hash_apply(bucket.hash, e.first) :
           IF h < capacity(bucket)
             THEN /\ m_buckets' = [m_buckets EXCEPT ![i + 1] = add(bucket, e, h)]
                  /\ j' = j + 1
                  /\ pc' = pc
             ELSE /\ pc' = "fault"
                  /\ UNCHANGED <<m_buckets, j>>
  /\ UNCHANGED <<header, input, m_hash, m_keys, hashed, it, i, dummy, collision, ret, other>>

\* do_perfect returns: populate goes to the next bucket.
PlaceEnd ==
  /\ pc = "place"
  /\ j = Len(hashed[i + 1])
  /\ pc' = "bucket"
  /\ i' = i + 1
  /\ UNCHANGED <<header, input, m_hash, m_buckets, m_keys, hashed, it,
                 dummy, collision, j, ret, other>>

Build ==
  \/ Construct
  \/ Partition
  \/ PartitionEnd
  \/ SkipEmpty
  \/ Resize
  \/ PopulateEnd
  \/ Probe
  \/ ProbeEnd
  \/ Place
  \/ PlaceEnd

---------------------------------------------------------------------------
\* Accessors.  An outcome is the value returned, or one of two strings no
\* value equals: NotFound (std::out_of_range thrown) and Fault (a failed
\* assert or an access outside a vector).
NotFound == "NotFound"
Fault == "Fault"

\* Where a key's two hashes lead in the map (top, bks): the bucket index
\* h = m_hash(key) and the slot index s = bucket.hash(key), with what is there:
\* "slot" an element of the bucket, "noslot" an index outside the bucket's
\* vector, "nobucket" an index outside m_buckets.
locate(top, bks, key) ==
  UNION {IF h < Len(bks)
           THEN {[kind |-> IF s < Len(bks[h + 1].buckets) THEN "slot" ELSE "noslot",
                  h |-> h, s |-> s] : s \in hash_apply(bks[h + 1].hash, key)}
           ELSE {[kind |-> "nobucket", h |-> h, s |-> 0]}
         : h \in hash_apply(top, key)}

\* perfect_hash_map::at and SubHash::at at one place.  perfhash throws when
\* the slot index is outside the bucket; hashing indexes the vector unchecked.
\* Both throw when the stored key differs from the key asked for.
at_outcome(hdr, bks, key, loc) ==
  CASE loc.kind = "nobucket" -> Fault
    [] loc.kind = "noslot"   -> IF hdr = "hashing" THEN Fault ELSE NotFound
    [] OTHER -> LET pair == bks[loc.h + 1].buckets[loc.s + 1]
                IN  IF pair.first # key THEN NotFound ELSE pair.second

\* perfect_hash_map::at(key): every outcome a build can produce.
at(hdr, top, bks, key) ==
  {at_outcome(hdr, bks, key, loc) : loc \in locate(top, bks, key)}

\* perfect_hash_map::operator[] and SubHash::operator[] at one place:
\* buckets[hash(key)].second, with no check of the index or of the key.
index_outcome(bks, key, loc) ==
  IF loc.kind = "slot" THEN bks[loc.h + 1].buckets[loc.s + 1].second ELSE Fault

\* An accessor that returns a copy of the value: the assignment is lost.
assign_to_copy(bks, key, loc, v) == bks

\* An operator[] that inserts the key it is asked for, as std::map's does.
assign_inserting(bks, key, loc, v) ==
  [bks EXCEPT ![loc.h + 1].buckets[loc.s + 1] = [first |-> key, second |-> v]]

\* Assignment of v through the reference an accessor returned for key: only
\* the second of the pair at key's place changes.
assign(bks, key, loc, v) ==
  [bks EXCEPT ![loc.h + 1].buckets[loc.s + 1].second = v]

\* h.at(key), read.
At(key) ==
  /\ pc = "done"
  /\ \E out \in at(header, m_hash, m_buckets, key) :
       /\ ret' = [op |-> "at", key |-> key, out |-> out]
       /\ pc' = IF out = Fault THEN "fault" ELSE pc
  /\ UNCHANGED <<header, input, build_vars, other>>

\* h[key], read.
Index(key) ==
  /\ pc = "done"
  /\ \E loc \in locate(m_hash, m_buckets, key) :
       LET out == index_outcome(m_buckets, key, loc)
       IN  /\ ret' = [op |-> "index", key |-> key, out |-> out]
           /\ pc' = IF out = Fault THEN "fault" ELSE pc
  /\ UNCHANGED <<header, input, build_vars, other>>

\* h[key] = v.
IndexAssign(key, v) ==
  /\ pc = "done"
  /\ \E loc \in locate(m_hash, m_buckets, key) :
       IF loc.kind = "slot"
         THEN /\ m_buckets' = assign(m_buckets, key, loc, v)
              /\ ret' = [op |-> "index=", key |-> key, out |-> v]
              /\ pc' = pc
         ELSE /\ ret' = [op |-> "index=", key |-> key, out |-> Fault]
              /\ pc' = "fault"
              /\ UNCHANGED m_buckets
  /\ UNCHANGED <<header, input, m_hash, m_keys, hashed, it, i, dummy, collision, j, other>>

\* h.at(key) = v: the mutable at throws before anything is assigned when the
\* key is not stored at its slot.
AtAssign(key, v) ==
  /\ pc = "done"
  /\ \E loc \in locate(m_hash, m_buckets, key) :
       LET out == at_outcome(header, m_buckets, key, loc)
       IN  IF out \in {NotFound, Fault}
             THEN /\ ret' = [op |-> "at=", key |-> key, out |-> out]
                  /\ pc' = IF out = Fault THEN "fault" ELSE pc
                  /\ UNCHANGED m_buckets
             ELSE /\ m_buckets' = assign(m_buckets, key, loc, v)
                  /\ ret' = [op |-> "at=", key |-> key, out |-> v]
                  /\ pc' = pc
  /\ UNCHANGED <<header, input, m_hash, m_keys, hashed, it, i, dummy, collision, j, other>>

Read ==
  \/ \E key \in QueryKeys : At(key)
  \/ \E key \in QueryKeys : Index(key)

Write ==
  \/ \E key \in QueryKeys, v \in NewValues : IndexAssign(key, v)
  \/ \E key \in QueryKeys, v \in NewValues : AtAssign(key, v)

\* Construction followed by lookups.
Next == Build \/ Read

Spec == Init /\ [][Next]_vars

\* The same under the copy of the header in namespace hashing.
InitHashing == InitWith("hashing")

SpecHashing == InitHashing /\ [][Next]_vars

\* Construction followed by lookups and assignments, for inputs given in
\* increasing key order.
InitRW ==
  /\ Init
  /\ \A p \in 1..(Len(input) - 1) : input[p].first < input[p + 1].first

NextRW == Build \/ Read \/ Write

SpecRW == InitRW /\ [][NextRW]_vars

\* The bucket hash of bucket sends the keys of elements to distinct slots.
perfect(bucket, elements) ==
  \A p, q \in 1..Len(elements) :
    p # q => hash_apply(bucket.hash, elements[p].first)
               \cap hash_apply(bucket.hash, elements[q].first) = {}

\* A rehash that draws parameters without collision for the bucket at hand.
GoodRehash ==
  /\ Probe
  /\ collision'
  /\ perfect(m_buckets'[i + 1], hashed[i + 1])

\* Inputs given in non-decreasing key order: equal keys are adjacent.
InitFair ==
  /\ Init
  /\ \A p \in 1..(Len(input) - 1) : input[p].first <= input[p + 1].first

\* The constructor alone.  It runs to its end unless it loops, and the random
\* source is fair: a collision-free (a, b) that rehash can draw is not
\* withheld forever.
FairSpec == InitFair /\ [][Build]_vars /\ WF_vars(Build) /\ SF_vars(GoodRehash)

\* A second map is constructed from the same range; what the first map's at
\* gave for every key is kept in other.
Again ==
  /\ pc = "done"
  /\ other = NoMap
  /\ other' = [k \in QueryKeys |-> at(header, m_hash, m_buckets, k)]
  /\ pc' = "start"
  /\ m_hash' = [M |-> 0, a |-> 0, b |-> 0]
  /\ m_buckets' = <<>>
  /\ m_keys' = <<>>
  /\ hashed' = <<>>
  /\ it' = 0
  /\ i' = 0
  /\ dummy' = <<>>
  /\ collision' = FALSE
  /\ j' = 0
  /\ ret' = NoCall
  /\ UNCHANGED <<header, input>>

NextPair == Build \/ Read \/ Again

SpecPair == Init /\ [][NextPair]_vars

---------------------------------------------------------------------------
\* The construction input, seen as a mapping.
InputKeys == {input[p].first : p \in 1..Len(input)}

DistinctKeys == \A p, q \in 1..Len(input) : p # q => input[p].first # input[q].first

\* The value of the last input pair whose key is k.
LastValue(k) ==
  LET last == CHOOSE p \in 1..Len(input) :
                /\ input[p].first = k
                /\ \A q \in (p + 1)..Len(input) : input[q].first # k
  IN  input[last].second

---------------------------------------------------------------------------
\* C1: no false negatives.  Once the range constructor has returned for an
\* input with pairwise distinct keys, at(k) returns v for every input pair
\* (k, v): k resolves to exactly one slot, the slot holds the pair (k, v), and
\* no other input key resolves to that slot.
C1_NoFalseNegatives ==
  DistinctKeys =>
    /\ (ret.op = "at" /\ ret.key \in InputKeys) => ret.out = LastValue(ret.key)
    /\ pc = "done" =>
         \A p \in 1..Len(input) :
           LET k   == input[p].first
               loc == locate(m_hash, m_buckets, k)
           IN  /\ Cardinality(loc) = 1
               /\ \A l \in loc :
                    /\ l.kind = "slot"
                    /\ m_buckets[l.h + 1].buckets[l.s + 1] = input[p]
               /\ \A q \in 1..Len(input) :
                    q # p => locate(m_hash, m_buckets, input[q].first) \cap loc = {}

\* at found the second of two keys that share a bucket.
C1_Witness ==
  /\ DistinctKeys
  /\ Len(input) = 2
  /\ \E h \in 1..Len(hashed) : Len(hashed[h]) = 2
  /\ ret = [op |-> "at", key |-> input[2].first, out |-> "b"]

\* C2: no false positives.  For a map built from a non-empty input, at(k) of a
\* key k that does not occur in the input signals NotFound (the empty input
\* is C6's case).
C2_NoFalsePositives ==
  (Len(input) > 0 /\ ret.op = "at" /\ ret.key \notin InputKeys)
    => ret.out = NotFound

\* C6: degenerate input.  After construction from the empty sequence every
\* at(k) signals NotFound: it neither fails an assert nor indexes outside a
\* table.
C6_EmptyInput ==
  Len(input) = 0 =>
    /\ pc # "fault"
    /\ ret.op = "at" => ret.out = NotFound

\* ceil(log2(n)) for n >= 1, and 0 for n = 0.
RECURSIVE CeilLog2(_)
CeilLog2(n) == IF n <= 1 THEN 0 ELSE 1 + CeilLog2((n + 1) \div 2)

\* C10 as stated: the top-level exponent is ceil(log2(n)), 0 for n = 0, and
\* there are 2^M buckets, the smallest power of two >= n.
C10_CeilLog2 ==
  pc # "start" =>
    /\ m_hash.M = CeilLog2(Len(input))
    /\ Len(m_buckets) = Pow2(CeilLog2(Len(input)))

\* C10 as amended: the top-level exponent is the bit length of n, that is
\* floor(log2(n)) + 1 for n >= 1 and 0 for n = 0, and there are 2^M buckets,
\* the smallest power of two strictly greater than n.
C10_BitLength ==
  pc # "start" =>
    LET n == Len(input)
        M == m_hash.M
    IN  /\ Len(m_buckets) = Pow2(M)
        /\ n < Pow2(M)
        /\ n = 0 => M = 0
        /\ n >= 1 => Pow2(M - 1) <= n

\* A map of MaxN pairs has been given its buckets.
C10_Witness == pc = "partition" /\ Len(input) = MaxN /\ Len(m_buckets) > MaxN

---------------------------------------------------------------------------
\* C3: duplicate keys are last-write-wins.  For an input in which a key occurs
\* more than once, construction completes and at(k) then returns the value of
\* the last pair whose key is k.
C3_LastWriteWins ==
  ~DistinctKeys =>
    <>(/\ pc = "done"
       /\ \A k \in InputKeys : at(header, m_hash, m_buckets, k) = {LastValue(k)})

\* The keys for which at succeeds in the map (top, bks).
AtSucceeds(hdr, top, bks) ==
  {k \in QueryKeys : \E out \in at(hdr, top, bks, k) : out \notin {NotFound, Fault}}

\* h[key], every outcome.
index(top, bks, key) ==
  {index_outcome(bks, key, loc) : loc \in locate(top, bks, key)}

\* The last call assigned to a key of the input.
WroteInputKey(r) == r.op \in {"index=", "at="} /\ r.key \in InputKeys

\* C4, the state after an assignment to a present key k: the assignment took
\* place, at(k) and operator[](k) give the value assigned, and assigning it
\* again changes nothing.
C4_AfterWrite ==
  (DistinctKeys /\ pc = "done" /\ WroteInputKey(ret)) =>
    /\ ret.out \in NewValues
    /\ at(header, m_hash, m_buckets, ret.key) = {ret.out}
    /\ index(m_hash, m_buckets, ret.key) = {ret.out}
    /\ \A loc \in locate(m_hash, m_buckets, ret.key) :
         assign(m_buckets, ret.key, loc, ret.out) = m_buckets

\* C4, the step of an assignment to a present key k: at and operator[] of
\* every other present key give what they gave before.
C4_OthersKept ==
  (DistinctKeys /\ pc = "done" /\ WroteInputKey(ret')) =>
    \A k \in InputKeys \ {ret'.key} :
      /\ at(header', m_hash', m_buckets', k) = at(header, m_hash, m_buckets, k)
      /\ index(m_hash', m_buckets', k) = index(m_hash, m_buckets, k)

\* C4: write-through update of an existing key.
C4_WriteThrough == [](C4_AfterWrite) /\ [][C4_OthersKept]_vars

\* operator[] assigned to the first of two present keys; the second still has
\* its input value.
C4_Witness ==
  /\ DistinctKeys
  /\ Len(input) = 2
  /\ pc = "done"
  /\ ret = [op |-> "index=", key |-> input[1].first, out |-> "teste"]
  /\ at(header, m_hash, m_buckets, input[1].first) = {"teste"}
  /\ at(header, m_hash, m_buckets, input[2].first) = {"b"}

\* C5: the key set is fixed at construction.  No call of at or operator[],
\* reading or assigning, changes the keys at() succeeds for, the stored key of
\* a slot, the parameters (a, b, M) of the top-level hash or of a bucket's hash,
\* the number of buckets or a bucket's capacity.
C5_KeySetFixed ==
  [][pc = "done" =>
       /\ m_hash' = m_hash
       /\ m_keys' = m_keys
       /\ \/ m_buckets' = m_buckets
          \/ /\ Len(m_buckets') = Len(m_buckets)
             /\ \A h \in 1..Len(m_buckets) :
                  /\ m_buckets'[h].hash = m_buckets[h].hash
                  /\ capacity(m_buckets'[h]) = capacity(m_buckets[h])
                  /\ \A s \in 1..capacity(m_buckets[h]) :
                       m_buckets'[h].buckets[s].first
                         = m_buckets[h].buckets[s].first
             /\ AtSucceeds(header', m_hash', m_buckets')
                  = AtSucceeds(header, m_hash, m_buckets)]_vars

\* operator[] assigned through a key that is not in the input and whose place
\* is an allocated slot.
C5_Witness ==
  /\ pc = "done"
  /\ ret.op = "index="
  /\ ret.key \notin InputKeys
  /\ ret.out = "teste"
  /\ \E loc \in locate(m_hash, m_buckets, ret.key) :
       /\ loc.kind = "slot"
       /\ m_buckets[loc.h + 1].buckets[loc.s + 1].second = "teste"

\* C7: determinism of results across seeds.  Two maps built from the same
\* non-empty input give the same outcome of at(k) for every key k.
C7_SameResults ==
  (Len(input) > 0 /\ pc = "done" /\ other # NoMap) =>
    \A k \in QueryKeys : at(header, m_hash, m_buckets, k) = other[k]

C9_CollisionStep ==
  (pc = "probe" /\ ~collision /\ collision') =>
    /\ pc' = "probe"
    /\ j' = 0
    /\ Len(dummy') = capacity(m_buckets'[i + 1])
    /\ \A s \in 1..Len(dummy') : ~dummy'[s]
    /\ m_buckets'[i + 1].hash.M = m_buckets[i + 1].hash.M
    /\ m_buckets'[i + 1].buckets = m_buckets[i + 1].buckets

\* C9, placement: it starts only after a pass in which the pending keys went
\* to distinct slots, all marked in dummy.
C9_PlaceAfterCleanPass ==
  pc = "place" =>
    /\ perfect(m_buckets[i + 1], hashed[i + 1])
    /\ \A p \in 1..Len(hashed[i + 1]) :
         \A h \in hash_apply(m_buckets[i + 1].hash, hashed[i + 1][p].first) :
           h < Len(dummy) /\ dummy[h + 1]

\* C9, a step of placement: the slot written was not written by an earlier
\* step of this placement.
C9_WrittenOnce ==
  (pc = "place" /\ j' = j + 1) =>
    \A h \in hash_apply(m_buckets[i + 1].hash, hashed[i + 1][j + 1].first) :
      \A q \in 1..j :
        h \notin hash_apply(m_buckets[i + 1].hash, hashed[i + 1][q].first)

\* C9: the collision probe protocol of do_perfect, for inputs with pairwise
\* distinct keys; the constructor raises no error.
C9_ProbeProtocol ==
  /\ [](DistinctKeys /\ ret.op = "none" => pc \notin {"threw", "fault"})
  /\ [](DistinctKeys => C9_PlaceAfterCleanPass)
  /\ [][DistinctKeys => C9_CollisionStep]_vars
  /\ [][DistinctKeys => C9_WrittenOnce]_vars

\* Every index the hash function hf can give for a key lies in [0, 2^M).
HashInRange(hf) ==
  \A key \in QueryKeys : \A h \in hash_apply(hf, key) : h \in 0..(Pow2(hf.M) - 1)

\* C11: hash range.  Once constructed, the top-level hash (M from n, M = 0
\* included) and the hash of every resized bucket (M from n_i^2), with the
\* (a, b) they hold and with every (a, b) a rehash can draw, send every key
\* to an index in [0, 2^M), the size of the table they index; so no assert
\* on an index fails in the constructor, and at and operator[] index
\* m_buckets and every resized bucket within bounds.
C11_HashRange ==
  pc # "start" =>
    /\ Len(m_buckets) = Pow2(m_hash.M)
    /\ HashInRange(m_hash)
    /\ \A s \in 1..Len(m_buckets) :
         capacity(m_buckets[s]) > 0 =>
           /\ capacity(m_buckets[s]) = Pow2(m_buckets[s].hash.M)
           /\ \A d1 \in RDist, d2 \in RDist :
                HashInRange(rehash(m_buckets[s].hash, d1, d2))
           /\ HashInRange(m_buckets[s].hash)
    /\ ret.op = "none" => pc # "fault"
    /\ \A key \in QueryKeys : \A loc \in locate(m_hash, m_buckets, key) :
         /\ loc.kind # "nobucket"
         /\ capacity(m_buckets[loc.h + 1]) > 0 => loc.kind = "slot"
=============================================================================
